---- MODULE Spec2Model ----
(***************************************************************************)
(* Payment verification and replay protection of the Dune/Solana MCP API.  *)
(*                                                                         *)
(* Two gates exist in the source and both write the same table             *)
(* payment_signatures:                                                     *)
(*   - validatePaymentMiddleware, which delegates to                       *)
(*     PaymentTracker.validatePayment (services/paymentTracker);           *)
(*   - validateSOLPayment, which does the chain checks itself and uses     *)
(*     SimplePaymentTracker (services/simplePaymentTracker).               *)
(* A request is one asynchronous task; every `await` of the source is one  *)
(* step of the model, the synchronous code after it belongs to that step.  *)
(*                                                                         *)
(* Amounts.  Lamport amounts are integers.  A JavaScript number holding a  *)
(* SOL amount is represented by the integer n of the decimal n * 1e-9 it   *)
(* is the nearest double of.  lamports / 1e9 is correctly rounded, so it   *)
(* is the double of that decimal and `<` on two such doubles agrees with   *)
(* `<` on the integers (lamports < 2^52).  sol * 1e9 is NOT exact: for the *)
(* values in RoundsDown the product is just below the integer and          *)
(* Math.floor loses one lamport (0.000000015 * 1e9 = 14.999999999999998).  *)
(***************************************************************************)
EXTENDS Integers, Sequences, FiniteSets, TLC

\* Number of requests handled in one behaviour.
NumReq == 2

\* The requests, numbered in their order of arrival.
Reqs == 1 .. NumReq

Null == "null"

\* An optional value (null | x) is the sequence <<>> or <<x>>.
None == <<>>
Some(x) == <<x>>

\* config.solana.receiverAddress
receiverAddress == "RECEIVER"

\* Routes that mount the gate (the endpoint argument of the middleware factory).
Routes == <<"POST /api/query", "POST /api/query/sol">>

\* The endpoints request r may be sent to.  The code only stores the endpoint, so
\* the first request is sent to the first route without loss of generality.
Endpoints(r) == {Routes[i] : i \in {j \in DOMAIN Routes : j <= r}}

\* Values of config.payment.amountSol, in units of 1e-9 SOL.
AmountSolValues == {15, 16}

\* Integers n below 64 for which the double product (n * 1e-9) * 1e9 is
\* smaller than n.
RoundsDown == {15, 30, 60, 63}

\* Math.floor(sol * 1e9) for a SOL amount of n * 1e-9.
FloorLamports(n) == IF n \in RoundsDown THEN n - 1 ELSE n

(***************************************************************************)
(* The chain.  getTransaction(signature) answers with the record below,    *)
(* or null when the signature is unknown to the node.                      *)
(***************************************************************************)
Sigs == {"SIG_NONE", "SIG_FAIL", "SIG_OTHER", "SIG_ZERO", "SIG_EXACT", "SIG_OVER"}

\* The x-payment-signature header is absent or empty (`!signature`).
NoSignature == ""

\* What a request may carry as its claimed signature.
Claimed == Sigs \cup {NoSignature}

\* A transaction the node knows; err is the value of `!meta || meta.err`.
Tx(err, accounts, pre, post) ==
    Some([err |-> err, accounts |-> accounts, preBalances |-> pre, postBalances |-> post])

Chain(signature) ==
    CASE signature = "SIG_FAIL"  -> Tx(TRUE,  <<"SENDER", "RECEIVER">>, <<100, 0>>, <<99, 0>>)
      [] signature = "SIG_OTHER" -> Tx(FALSE, <<"SENDER", "OTHER">>,    <<100, 0>>, <<83, 16>>)
      [] signature = "SIG_ZERO"  -> Tx(FALSE, <<"SENDER", "RECEIVER">>, <<100, 5>>, <<99, 5>>)
      [] signature = "SIG_EXACT" -> Tx(FALSE, <<"SENDER", "RECEIVER">>, <<100, 0>>, <<84, 15>>)
      [] signature = "SIG_OVER"  -> Tx(FALSE, <<"RECEIVER", "SENDER">>, <<0, 100>>, <<16, 83>>)
      [] OTHER -> None

\* The execution error of the transaction disregarded.
TransactionFailed_Ignored(txInfo) == FALSE

\* if (!txInfo.meta || txInfo.meta.err)
TransactionFailed(txInfo) == txInfo.err

\* Taking the last account for the payee instead of looking the receiver up.
IndexOf_Last(seq, x) == Len(seq)

\* accounts.indexOf(x), 1-based; 0 stands for JavaScript's -1.
IndexOf(seq, x) ==
    IF \E i \in DOMAIN seq : seq[i] = x
    THEN CHOOSE i \in DOMAIN seq : seq[i] = x /\ \A j \in DOMAIN seq : j < i => seq[j] # x
    ELSE 0

(***************************************************************************)
(* The table payment_signatures: a sequence of rows.                       *)
(***************************************************************************)
\* A table without the UNIQUE constraint: no insert is ever refused.
UniqueViolation_NoConstraint(table, signature) == FALSE

\* The UNIQUE constraint on payment_signatures.signature.
UniqueViolation(table, signature) ==
    \E i \in DOMAIN table : table[i].signature = signature

\* A lookup without its WHERE clause: any row of the table is a hit.
SelectBySignature_AnyRow(table, signature) == table

\* SELECT * FROM payment_signatures WHERE signature = $1
SelectBySignature(table, signature) ==
    SelectSeq(table, LAMBDA row : row.signature = signature)

\* An UPDATE that also stamps the row anew.
UpdateUsageCount_Restamp(table, signature) ==
    [i \in DOMAIN table |->
        IF table[i].signature = signature
        THEN [table[i] EXCEPT !.usage_count = @ + 1, !.first_used_at = 0]
        ELSE table[i]]

\* An UPDATE that counts down.
UpdateUsageCount_Decrement(table, signature) ==
    [i \in DOMAIN table |->
        IF table[i].signature = signature
        THEN [table[i] EXCEPT !.usage_count = @ - 1]
        ELSE table[i]]

\* UPDATE payment_signatures SET usage_count = usage_count + 1 WHERE signature = $1
UpdateUsageCount(table, signature) ==
    [i \in DOMAIN table |->
        IF table[i].signature = signature
        THEN [table[i] EXCEPT !.usage_count = @ + 1]
        ELSE table[i]]

VARIABLES server, config, gate, payment_signatures, pc, req, local, res, trace, poll

vars == <<server, config, gate, payment_signatures, pc, req, local, res, trace, poll>>

\* A request: the x-payment-signature header, whether it carries the
\* x-payment-network and x-payment-amount headers and their values, the route.
NoReq == [signature |-> Null, attributes |-> FALSE, network |-> Null, amount |-> 0,
          endpoint |-> Null]
NoLocal == [existingRecord |-> None, expectedAmount |-> 0, attempts |-> 0, tx |-> None]
Pending == [state |-> "pending", http |-> 0, error |-> Null,
            is_replay_attack |-> FALSE, usage_count |-> 0,
            first_used_at |-> 0, original_endpoint |-> Null, payment |-> None,
            attached |-> None]

\* DuneService with no execution being polled.
NoPoll == [pc |-> "idle", attempt |-> 0, log |-> <<>>, error |-> <<>>]

\* The process before startServer has run.
Starting == [state |-> "starting", dbHealthy |-> FALSE]

\* The server after app.listen, started against a healthy database.
Listening == [state |-> "listening", dbHealthy |-> TRUE]

\* The gate and its table when the process starts: no row, no request.
NoTraffic ==
    /\ gate \in {"validatePaymentMiddleware", "validateSOLPayment"}
    /\ payment_signatures = <<>>
    /\ pc = [r \in Reqs |-> "idle"]
    /\ req = [r \in Reqs |-> NoReq]
    /\ local = [r \in Reqs |-> NoLocal]
    /\ res = [r \in Reqs |-> Pending]
    /\ trace = [r \in Reqs |-> <<>>]
    /\ poll = NoPoll

InitGate ==
    /\ config \in [nodeEnv : {"development", "production"}, amountSol : AmountSolValues]
    /\ NoTraffic

Init ==
    /\ server = Listening
    /\ InitGate

\* next(): the request is passed to the downstream handler, with the payment
\* record the gate attached to it (req.payment or res.locals), if any.
Proceed(attached) == [Pending EXCEPT !.state = "next", !.attached = attached]

\* req.payment in development mode.
DevModePayment ==
    Some([signature |-> "dev-mode", network |-> "solana", amount |-> 0, verified |-> TRUE])

\* res.status(code).json({error, is_replay_attack, payment_details})
Deny(code, error, isReplay, usage) ==
    [Pending EXCEPT !.state = "denied", !.http = code, !.error = error,
                    !.is_replay_attack = isReplay, !.usage_count = usage]

\* payment_details of the replay response: first_used_at, usage_count and
\* original_endpoint of the record, when validatePayment returned one.
PaymentDetails(response, paymentRecord) ==
    IF paymentRecord = None THEN response
    ELSE [response EXCEPT !.usage_count = paymentRecord[1].usage_count,
                          !.first_used_at = paymentRecord[1].first_used_at,
                          !.original_endpoint = paymentRecord[1].api_endpoint]

\* The 402 response: what to pay, on which network, to whom.
PaymentRequired(amountSol) ==
    [Deny(402, "Payment Required", FALSE, 0) EXCEPT
        !.payment = Some([amount_sol |-> amountSol, network |-> "solana",
                          receiver_address |-> receiverAddress])]

\* The moment request r writes its row; no two requests write at the same moment.
Now(r) == r

\* trace[r] is the history of request r: its arrival, with whether the ledger held
\* its signature at that moment, then every storage, chain and timer call the
\* request awaited, with the outcome of the call.
Log(r, op, outcome) == [trace EXCEPT ![r] = Append(@, <<op, outcome>>)]

Ledger(signature) ==
    IF SelectBySignature(payment_signatures, signature) # <<>> THEN "used" ELSE "fresh"

\* Request r arrives: the requests before it have arrived.
Arrives(r) ==
    /\ pc[r] = "idle"
    /\ \A q \in Reqs : q < r => pc[q] # "idle"

(***************************************************************************)
(* PaymentTracker (services/paymentTracker): the pure parts.               *)
(***************************************************************************)
\* Balance change of account i: postBalances[i] - preBalances[i].
Change(txInfo, i) == txInfo.postBalances[i] - txInfo.preBalances[i]

\* The first account, other than the receiver, whose balance went down; '' if none.
FindSender(txInfo) ==
    LET losers == {i \in DOMAIN txInfo.accounts :
                      Change(txInfo, i) < 0 /\ txInfo.accounts[i] # receiverAddress}
    IN  IF losers = {} THEN ""
        ELSE txInfo.accounts[CHOOSE i \in losers : \A j \in losers : i <= j]

Invalid(error) ==
    [isValid |-> FALSE, error |-> error, amount |-> 0, asset |-> Null,
     senderAddress |-> "", receiverAddress |-> ""]

\* validateOnBlockchain, after getTransaction returned txInfo.
TxValidation(getTransaction) ==
    IF getTransaction = None THEN Invalid("Transaction not found on blockchain")
    ELSE LET txInfo == getTransaction[1]
             receiverIndex == IndexOf(txInfo.accounts, receiverAddress)
         IN  IF TransactionFailed(txInfo) THEN Invalid("Transaction failed on blockchain")
             ELSE IF receiverIndex = 0
             THEN Invalid("Payment not sent to expected receiver address")
             ELSE IF Change(txInfo, receiverIndex) <= 0
             THEN Invalid("No positive balance change detected for receiver")
             ELSE [isValid |-> TRUE, error |-> Null,
                   amount |-> Change(txInfo, receiverIndex), asset |-> "native",
                   senderAddress |-> FindSender(txInfo),
                   receiverAddress |-> receiverAddress]

\* The amount check left out.
verifyPaymentDetails_AnyAmount(transactionInfo, expectedAmount, expectedAsset) ==
    IF transactionInfo.asset # expectedAsset
    THEN [isValid |-> FALSE, error |-> "Wrong asset type"]
    ELSE [isValid |-> TRUE, error |-> Null]

\* The amount compared with <= : a payment of exactly the expected amount is refused.
verifyPaymentDetails_Strict(transactionInfo, expectedAmount, expectedAsset) ==
    IF transactionInfo.asset # expectedAsset
    THEN [isValid |-> FALSE, error |-> "Wrong asset type"]
    ELSE IF transactionInfo.amount <= expectedAmount
    THEN [isValid |-> FALSE, error |-> "Insufficient payment amount"]
    ELSE [isValid |-> TRUE, error |-> Null]

verifyPaymentDetails(transactionInfo, expectedAmount, expectedAsset) ==
    IF transactionInfo.asset # expectedAsset
    THEN [isValid |-> FALSE, error |-> "Wrong asset type"]
    ELSE IF transactionInfo.amount < expectedAmount
    THEN [isValid |-> FALSE, error |-> "Insufficient payment amount"]
    ELSE [isValid |-> TRUE, error |-> Null]

\* PaymentValidationResult
Result(isValid, isFirstUse, error, paymentRecord) ==
    [isValid |-> isValid, isFirstUse |-> isFirstUse, error |-> error,
     paymentRecord |-> paymentRecord]

\* The catch block of validatePayment.
Caught == Result(FALSE, FALSE, "Payment validation failed", None)

\* validatePaymentMiddleware, after validatePayment returned.
\* req.payment = {signature, network, amount, isVerified: true}: the values of
\* the request headers.
HeaderPayment(r) ==
    Some([signature |-> req[r].signature, network |-> req[r].network,
          amount |-> req[r].amount, verified |-> TRUE])

GateResponse(r, validationResult) ==
    IF ~validationResult.isValid
    THEN PaymentDetails(Deny(IF validationResult.isFirstUse THEN 400 ELSE 409,
                             validationResult.error,
                             ~validationResult.isFirstUse,
                             0),
                        validationResult.paymentRecord)
    ELSE Proceed(HeaderPayment(r))

Finish(r, response) ==
    /\ res' = [res EXCEPT ![r] = response]
    /\ pc' = [pc EXCEPT ![r] = "done"]

\* The verification always on: no development skip.
DevelopmentSkip_Off(nodeEnv) == FALSE

\* if (config.nodeEnv === 'development') return next()
DevelopmentSkip(nodeEnv) == nodeEnv = "development"

\* A request without a signature treated like any other.
MissingProof_Ignored(signature) == FALSE

\* if (!signature)
MissingProof(signature) == signature = NoSignature

\* if (!signature || !network || !amount); `attributes` says that the request
\* carries both x-payment-network and x-payment-amount.
MissingHeaders(signature, attributes) == MissingProof(signature) \/ ~attributes

(***************************************************************************)
(* validatePaymentMiddleware + PaymentTracker.validatePayment              *)
(***************************************************************************)
\* The request arrives: development skip, then the headers, then validatePayment.
\* A client that sends the network and amount headers sends what the 402
\* response asks for: network solana, the demanded amount in lamports.
validatePaymentMiddleware(r) ==
    /\ gate = "validatePaymentMiddleware"
    /\ Arrives(r)
    /\ \E signature \in Claimed, attributes \in BOOLEAN, endpoint \in Endpoints(r) :
          req' = [req EXCEPT ![r] =
                     [signature |-> signature, attributes |-> attributes,
                      network |-> IF attributes THEN "solana" ELSE Null,
                      amount |-> IF attributes THEN config.amountSol ELSE 0,
                      endpoint |-> endpoint]]
    /\ IF DevelopmentSkip(config.nodeEnv)
       THEN /\ Finish(r, Proceed(DevModePayment))
            /\ UNCHANGED local
       ELSE IF MissingHeaders(req'[r].signature, req'[r].attributes)
       THEN /\ Finish(r, PaymentRequired(config.amountSol))
            /\ UNCHANGED local
       ELSE /\ pc' = [pc EXCEPT ![r] = "getPaymentRecord"]
            /\ local' = [local EXCEPT ![r].expectedAmount = FloorLamports(config.amountSol)]
            /\ UNCHANGED res
    /\ trace' = Log(r, "request", Ledger(req'[r].signature))
    /\ UNCHANGED <<poll, server, config, gate, payment_signatures>>

\* Step 1: await this.getPaymentRecord(signature)
getPaymentRecord(r) ==
    /\ gate = "validatePaymentMiddleware"
    /\ pc[r] = "getPaymentRecord"
    /\ \E dbOk \in BOOLEAN :
          LET rows == SelectBySignature(payment_signatures, req[r].signature)
          IN  IF ~dbOk
              THEN /\ Finish(r, GateResponse(r, Caught))
                   /\ trace' = Log(r, "SELECT", "error")
                   /\ UNCHANGED local
              ELSE IF Len(rows) = 0
              THEN /\ pc' = [pc EXCEPT ![r] = "validateOnBlockchain"]
                   /\ trace' = Log(r, "SELECT", "miss")
                   /\ UNCHANGED <<local, res>>
              ELSE /\ pc' = [pc EXCEPT ![r] = "incrementUsageCount"]
                   /\ local' = [local EXCEPT ![r].existingRecord = Some(rows[1])]
                   /\ trace' = Log(r, "SELECT", "hit")
                   /\ UNCHANGED res
    /\ UNCHANGED <<poll, server, config, gate, payment_signatures, req>>

\* await this.incrementUsageCount(signature), then the replay result.
incrementUsageCount(r) ==
    /\ gate = "validatePaymentMiddleware"
    /\ pc[r] = "incrementUsageCount"
    /\ \E dbOk \in BOOLEAN :
          IF ~dbOk
          THEN /\ Finish(r, GateResponse(r, Caught))
               /\ trace' = Log(r, "UPDATE", "error")
               /\ UNCHANGED payment_signatures
          ELSE /\ payment_signatures' = UpdateUsageCount(payment_signatures, req[r].signature)
               /\ trace' = Log(r, "UPDATE", "ok")
               /\ Finish(r, GateResponse(r, Result(FALSE, FALSE,
                      "Payment signature already used (replay attack prevented)",
                      local[r].existingRecord)))
    /\ UNCHANGED <<poll, server, config, gate, req, local>>

\* Steps 2 and 3: await this.validateOnBlockchain(signature), verifyPaymentDetails.
validateOnBlockchain(r) ==
    /\ gate = "validatePaymentMiddleware"
    /\ pc[r] = "validateOnBlockchain"
    /\ \E rpcOk \in BOOLEAN :
          LET transactionInfo == IF rpcOk THEN TxValidation(Chain(req[r].signature))
                                 ELSE Invalid("Blockchain validation failed")
              verification == verifyPaymentDetails(transactionInfo,
                                  local[r].expectedAmount, "native")
          IN  /\ trace' = Log(r, "getTransaction", IF rpcOk THEN "confirmed" ELSE "error")
              /\ IF ~transactionInfo.isValid
                 THEN /\ Finish(r, GateResponse(r, Result(FALSE, TRUE, transactionInfo.error, None)))
                      /\ UNCHANGED local
                 ELSE IF ~verification.isValid
                 THEN /\ Finish(r, GateResponse(r, Result(FALSE, TRUE, verification.error, None)))
                      /\ UNCHANGED local
                 ELSE /\ pc' = [pc EXCEPT ![r] = "recordPayment"]
                      /\ local' = [local EXCEPT ![r].tx = Some(transactionInfo)]
                      /\ UNCHANGED res
    /\ UNCHANGED <<poll, server, config, gate, payment_signatures, req>>

\* The row PaymentTracker.recordPayment inserts.
TrackerRow(r) ==
    [signature |-> req[r].signature, network |-> "solana",
     amount |-> local[r].tx[1].amount, asset |-> local[r].tx[1].asset,
     sender_address |-> local[r].tx[1].senderAddress,
     receiver_address |-> local[r].tx[1].receiverAddress,
     api_endpoint |-> req[r].endpoint, first_used_at |-> Now(r), usage_count |-> 1]

\* Step 4: await this.recordPayment({...}), then the accepted result.
recordPayment(r) ==
    /\ gate = "validatePaymentMiddleware"
    /\ pc[r] = "recordPayment"
    /\ \E dbOk \in BOOLEAN :
          IF ~dbOk
          THEN /\ Finish(r, GateResponse(r, Caught))
               /\ trace' = Log(r, "INSERT", "error")
               /\ UNCHANGED payment_signatures
          ELSE IF UniqueViolation(payment_signatures, req[r].signature)
          THEN /\ Finish(r, GateResponse(r, Caught))
               /\ trace' = Log(r, "INSERT", "duplicate")
               /\ UNCHANGED payment_signatures
          ELSE /\ payment_signatures' = Append(payment_signatures, TrackerRow(r))
               /\ trace' = Log(r, "INSERT", "ok")
               /\ Finish(r, GateResponse(r, Result(TRUE, TRUE, Null, Some(TrackerRow(r)))))
    /\ UNCHANGED <<poll, server, config, gate, req, local>>

(***************************************************************************)
(* validateSOLPayment + SimplePaymentTracker                               *)
(***************************************************************************)
\* const maxAttempts = 2
maxAttempts == 2

\* The checks of validateSOLPayment on a transaction that was found:
\* meta.err, the receiver among the account keys, the balance change.
SolVerification(transaction, expectedAmountSol) ==
    LET receiverIndex == IndexOf(transaction.accounts, receiverAddress)
        solReceived == IF receiverIndex = 0 THEN 0 ELSE Change(transaction, receiverIndex)
    IN  IF TransactionFailed(transaction)
        THEN [ok |-> FALSE, error |-> "Transaction failed on blockchain", solReceived |-> 0]
        ELSE IF receiverIndex = 0
        THEN [ok |-> FALSE, error |-> "Payment not sent to correct address", solReceived |-> 0]
        ELSE IF solReceived < expectedAmountSol
        THEN [ok |-> FALSE, error |-> "Insufficient payment amount", solReceived |-> solReceived]
        ELSE [ok |-> TRUE, error |-> Null, solReceived |-> solReceived]

\* The replay check without its return: a used signature is verified again.
AfterReplayCheck_FallThrough(isUsed) == "getTransactionConfirmed"

\* if (isUsed) { recordReplayAttempt; return 409 } else the lookup loop.
AfterReplayCheck(isUsed) ==
    IF isUsed THEN "recordReplayAttempt" ELSE "getTransactionConfirmed"

\* The request arrives: development skip, then the signature header.  This gate
\* reads no other payment header, so the request carries the signature alone.
validateSOLPayment(r) ==
    /\ gate = "validateSOLPayment"
    /\ Arrives(r)
    /\ \E signature \in Claimed, endpoint \in Endpoints(r) :
          req' = [req EXCEPT ![r] = [NoReq EXCEPT !.signature = signature,
                                                    !.endpoint = endpoint]]
    /\ IF DevelopmentSkip(config.nodeEnv)
       THEN Finish(r, Proceed(None))
       ELSE IF MissingProof(req'[r].signature)
       THEN Finish(r, PaymentRequired(config.amountSol))
       ELSE /\ pc' = [pc EXCEPT ![r] = "isSignatureUsed"]
            /\ UNCHANGED res
    /\ trace' = Log(r, "request", Ledger(req'[r].signature))
    /\ UNCHANGED <<poll, server, config, gate, payment_signatures, local>>

\* await paymentTracker.isSignatureUsed(signature); a failing query answers false.
isSignatureUsed(r) ==
    /\ gate = "validateSOLPayment"
    /\ pc[r] = "isSignatureUsed"
    /\ \E dbOk \in BOOLEAN :
          LET rows == SelectBySignature(payment_signatures, req[r].signature)
              isUsed == dbOk /\ Len(rows) > 0
          IN  /\ trace' = Log(r, "SELECT", IF ~dbOk THEN "error"
                                           ELSE IF isUsed THEN "hit" ELSE "miss")
              /\ pc' = [pc EXCEPT ![r] = AfterReplayCheck(isUsed)]
    /\ UNCHANGED <<poll, server, config, gate, payment_signatures, req, local, res>>

\* await paymentTracker.recordReplayAttempt(...), then the 409 response.
recordReplayAttempt(r) ==
    /\ gate = "validateSOLPayment"
    /\ pc[r] = "recordReplayAttempt"
    /\ \E dbOk \in BOOLEAN :
          IF dbOk
          THEN /\ payment_signatures' = UpdateUsageCount(payment_signatures, req[r].signature)
               /\ trace' = Log(r, "UPDATE", "ok")
          ELSE /\ trace' = Log(r, "UPDATE", "error")
               /\ UNCHANGED payment_signatures
    /\ Finish(r, Deny(409, "Payment signature already used (replay attack prevented)", FALSE, 0))
    /\ UNCHANGED <<poll, server, config, gate, req, local>>

\* The catch block of validateSOLPayment.
SolCaught == Deny(500, "Payment verification failed", FALSE, 0)

\* What follows the lookup loop once a transaction was found.
AfterLookup(r, transaction) ==
    LET check == SolVerification(transaction, config.amountSol)
    IN  IF check.ok
        THEN /\ pc' = [pc EXCEPT ![r] = "recordPayment"]
             /\ local' = [local EXCEPT ![r].tx = Some(check)]
             /\ UNCHANGED res
        ELSE /\ Finish(r, Deny(400, check.error, FALSE, 0))
             /\ UNCHANGED local

\* Lookup loop: await connection.getTransaction(..., 'confirmed') of attempt attempts + 1.
getTransactionConfirmed(r) ==
    /\ gate = "validateSOLPayment"
    /\ pc[r] = "getTransactionConfirmed"
    /\ local[r].attempts < maxAttempts
    /\ \E rpcOk \in BOOLEAN :
          LET transaction == Chain(req[r].signature)
          IN  IF ~rpcOk
              THEN /\ Finish(r, SolCaught)
                   /\ UNCHANGED local
                   /\ trace' = Log(r, "getTransaction", "error")
              ELSE /\ trace' = Log(r, "getTransaction", "confirmed")
                   /\ IF transaction # None
                      THEN AfterLookup(r, transaction[1])
                      ELSE /\ pc' = [pc EXCEPT ![r] = "getTransactionFinalized"]
                           /\ local' = [local EXCEPT ![r].attempts = @ + 1]
                           /\ UNCHANGED res
    /\ UNCHANGED <<poll, server, config, gate, payment_signatures, req>>

\* Lookup loop: await connection.getTransaction(..., 'finalized')
getTransactionFinalized(r) ==
    /\ gate = "validateSOLPayment"
    /\ pc[r] = "getTransactionFinalized"
    /\ \E rpcOk \in BOOLEAN :
          LET transaction == Chain(req[r].signature)
          IN  IF ~rpcOk
              THEN /\ Finish(r, SolCaught)
                   /\ UNCHANGED local
                   /\ trace' = Log(r, "getTransaction", "error")
              ELSE /\ trace' = Log(r, "getTransaction", "finalized")
                   /\ IF transaction # None
                      THEN AfterLookup(r, transaction[1])
                      ELSE IF local[r].attempts < maxAttempts
                      THEN /\ pc' = [pc EXCEPT ![r] = "sleep"]
                           /\ UNCHANGED <<local, res>>
                      ELSE /\ Finish(r, Deny(400, "Transaction not found or not confirmed", FALSE, 0))
                           /\ UNCHANGED local
    /\ UNCHANGED <<poll, server, config, gate, payment_signatures, req>>

\* Lookup loop: await new Promise(resolve => setTimeout(resolve, 1000))
sleep(r) ==
    /\ gate = "validateSOLPayment"
    /\ pc[r] = "sleep"
    /\ pc' = [pc EXCEPT ![r] = "getTransactionConfirmed"]
    /\ trace' = Log(r, "setTimeout", "1000")
    /\ UNCHANGED <<poll, server, config, gate, payment_signatures, req, local, res>>

\* The row SimplePaymentTracker.recordPayment inserts; first_used_at and
\* usage_count are the column defaults NOW() and 1.
SimpleRow(r) ==
    [signature |-> req[r].signature, network |-> "solana",
     amount |-> FloorLamports(local[r].tx[1].solReceived), asset |-> "SOL",
     sender_address |-> "HKc1p8QY1XquJXEkQ5Qep9CqU3nnpTa7A9YA32jTfWA5",
     receiver_address |-> "FwJ3yH7AxZjxveFmbK74ZdLp6EaaLLoRffhiKVP3VX98",
     api_endpoint |-> req[r].endpoint, first_used_at |-> Now(r), usage_count |-> 1]

\* res.locals: paymentVerified, paymentType 'SOL', paymentAmount = solReceived,
\* paymentSignature; no network is attached.
Locals(r) ==
    Some([signature |-> req[r].signature, network |-> Null,
          amount |-> local[r].tx[1].solReceived, verified |-> TRUE])

\* await paymentTracker.recordPayment(...), whose errors are swallowed, then next().
SimpleRecordPayment(r) ==
    /\ gate = "validateSOLPayment"
    /\ pc[r] = "recordPayment"
    /\ \E dbOk \in BOOLEAN :
          IF ~dbOk
          THEN /\ trace' = Log(r, "INSERT", "error")
               /\ UNCHANGED payment_signatures
          ELSE IF UniqueViolation(payment_signatures, req[r].signature)
          THEN /\ trace' = Log(r, "INSERT", "duplicate")
               /\ UNCHANGED payment_signatures
          ELSE /\ payment_signatures' = Append(payment_signatures, SimpleRow(r))
               /\ trace' = Log(r, "INSERT", "ok")
    /\ Finish(r, Proceed(Locals(r)))
    /\ UNCHANGED <<poll, server, config, gate, req, local>>

Next ==
    \E r \in Reqs :
        \/ validatePaymentMiddleware(r)
        \/ getPaymentRecord(r)
        \/ incrementUsageCount(r)
        \/ validateOnBlockchain(r)
        \/ recordPayment(r)
        \/ validateSOLPayment(r)
        \/ isSignatureUsed(r)
        \/ recordReplayAttempt(r)
        \/ getTransactionConfirmed(r)
        \/ getTransactionFinalized(r)
        \/ sleep(r)
        \/ SimpleRecordPayment(r)

Spec == Init /\ [][Next]_vars

(***************************************************************************)
(* The same gates in a deployment with NODE_ENV=production.                *)
(***************************************************************************)
InitProduction ==
    /\ server = Listening
    /\ config \in [nodeEnv : {"production"}, amountSol : AmountSolValues]
    /\ NoTraffic

SpecProduction == InitProduction /\ [][Next]_vars

(***************************************************************************)
(* The same gates in a deployment whose PAYMENT_AMOUNT_SOL is 0.           *)
(***************************************************************************)
InitZeroPrice ==
    /\ server = Listening
    /\ config \in [nodeEnv : {"development", "production"}, amountSol : {0}]
    /\ NoTraffic

SpecZeroPrice == InitZeroPrice /\ [][Next]_vars

(***************************************************************************)
(* The server: startServer, then the router with its gated and its         *)
(* ungated routes.                                                         *)
(***************************************************************************)
\* Routes documented as requiring payment whose handler is mounted without a gate.
UngatedRoutes ==
    {"POST /api/saved/:queryId/execute", "POST /api/saved/:queryId/execute/sol",
     "POST /api/catalog/:queryKey/execute"}

\* startServer: await checkDatabaseHealth(), initializeDatabase() when healthy,
\* a warning otherwise, then app.listen in either case.
startServer ==
    /\ server.state = "starting"
    /\ \E dbHealthy \in BOOLEAN :
          server' = [state |-> "listening", dbHealthy |-> dbHealthy]
    /\ UNCHANGED <<poll, config, gate, payment_signatures, pc, req, local, res, trace>>

\* A request to a route without a gate: express invokes the handler, which
\* runs the query executor, whatever payment headers the request carries.
UngatedExecute(r) ==
    /\ Arrives(r)
    /\ \E signature \in Claimed, endpoint \in UngatedRoutes :
          req' = [req EXCEPT ![r] = [NoReq EXCEPT !.signature = signature,
                                                    !.endpoint = endpoint]]
    /\ Finish(r, [Pending EXCEPT !.state = "handler"])
    /\ trace' = Log(r, "request", Ledger(req'[r].signature))
    /\ UNCHANGED <<poll, server, config, gate, payment_signatures, local>>

InitServer ==
    /\ server = Starting
    /\ InitGate

NextServer ==
    \/ startServer
    \/ server.state = "listening" /\ Next
    \/ server.state = "listening" /\ \E r \in Reqs : UngatedExecute(r)

SpecServer == InitServer /\ [][NextServer]_vars

(***************************************************************************)
(* Dependencies that may stay silent.  No storage query and no             *)
(* getTransaction call is given a timeout (the pool's                      *)
(* connectionTimeoutMillis bounds only the connect, which is part of the   *)
(* error outcome of the storage steps), so the promise a request awaits    *)
(* stays pending for as long as the store or the chain endpoint does not   *)
(* answer.                                                                 *)
(***************************************************************************)
\* The steps of a request that await the store or the chain endpoint.
Awaits ==
    {"getPaymentRecord", "incrementUsageCount", "validateOnBlockchain", "recordPayment",
     "isSignatureUsed", "recordReplayAttempt",
     "getTransactionConfirmed", "getTransactionFinalized"}

\* The call request r awaits is never answered: its promise never settles
\* and the request stays where it is.
NoResponse(r) ==
    /\ pc[r] \in Awaits
    /\ pc' = [pc EXCEPT ![r] = "pending forever"]
    /\ trace' = Log(r, pc[r], "no response")
    /\ UNCHANGED <<poll, server, config, gate, payment_signatures, req, local, res>>

NextLive ==
    \/ Next
    \/ \E r \in Reqs : NoResponse(r)

\* The event loop runs every continuation that is ready.
SpecLive == Init /\ [][NextLive]_vars /\ WF_vars(NextLive)

(***************************************************************************)
(* DuneService.pollForResults(executionId, maxAttempts): the status poll   *)
(* of one query execution.  poll.log is the history of the calls it        *)
(* awaited, with their outcome.                                            *)
(***************************************************************************)
\* The value of maxAttempts in the model (the default of the source is 30).
MaxPolls == 3

\* status.state of a status response.
QueryStates ==
    {"QUERY_STATE_PENDING", "QUERY_STATE_EXECUTING",
     "QUERY_STATE_COMPLETED", "QUERY_STATE_FAILED"}

PollLog(op, outcome) == Append(poll.log, <<op, outcome>>)

\* The catch block of the loop body, entered with the error that was thrown:
\* on the last attempt it throws an error that wraps it, otherwise it waits
\* before the next attempt.
PollCatch(log, error) ==
    IF poll.attempt = MaxPolls - 1
    THEN [poll EXCEPT !.pc = "thrown", !.log = log,
                      !.error = <<"Failed to get query results", error>>]
    ELSE [poll EXCEPT !.pc = "retryWait", !.log = log]

\* executeSavedQuery calls pollForResults: the loop starts with attempt 0.
pollForResults ==
    /\ poll.pc = "idle"
    /\ poll' = [poll EXCEPT !.pc = "getStatus", !.attempt = 0]
    /\ UNCHANGED <<server, config, gate, payment_signatures, pc, req, local, res, trace>>

\* await axios.get(.../status), then the tests on status.state.
getStatus ==
    /\ poll.pc = "getStatus"
    /\ \/ poll' = PollCatch(PollLog("status", "error"), "request failed")
       \/ \E state \in QueryStates :
             LET log == PollLog("status", state)
             IN  poll' = CASE state = "QUERY_STATE_COMPLETED"
                                -> [poll EXCEPT !.pc = "getResults", !.log = log]
                           [] state = "QUERY_STATE_FAILED"
                                -> PollCatch(log, "Query execution failed")
                           [] OTHER -> [poll EXCEPT !.pc = "wait", !.log = log]
    /\ UNCHANGED <<server, config, gate, payment_signatures, pc, req, local, res, trace>>

\* await axios.get(.../results), then the return.
getResults ==
    /\ poll.pc = "getResults"
    /\ \/ poll' = [poll EXCEPT !.pc = "returned", !.log = PollLog("results", "ok")]
       \/ poll' = PollCatch(PollLog("results", "error"), "request failed")
    /\ UNCHANGED <<server, config, gate, payment_signatures, pc, req, local, res, trace>>

\* await new Promise(resolve => setTimeout(resolve, 2000)), in the loop body or
\* in its catch block, then attempt++ and the loop test.
pollWait ==
    /\ poll.pc \in {"wait", "retryWait"}
    /\ poll' = IF poll.attempt + 1 < MaxPolls
               THEN [poll EXCEPT !.pc = "getStatus", !.attempt = @ + 1,
                                 !.log = PollLog("setTimeout", "2000")]
               ELSE [poll EXCEPT !.pc = "thrown", !.attempt = @ + 1,
                                 !.log = PollLog("setTimeout", "2000"),
                                 !.error = <<"Query execution timeout">>]
    /\ UNCHANGED <<server, config, gate, payment_signatures, pc, req, local, res, trace>>

InitPoll ==
    /\ server = Listening
    /\ config = [nodeEnv |-> "production", amountSol |-> 15]
    /\ gate = "validateSOLPayment"
    /\ NoTraffic

NextPoll ==
    \/ pollForResults
    \/ getStatus
    \/ getResults
    \/ pollWait

SpecPoll == InitPoll /\ [][NextPoll]_vars

(***************************************************************************)
(* Vocabulary of the properties.                                           *)
(***************************************************************************)
Production == config.nodeEnv = "production"

Done(r) == pc[r] = "done"

\* The request was passed to the downstream handler.
Accepted(r) == res[r].state = "next"

Rejected(r) == res[r].state = "denied"

AlreadyUsed == "Payment signature already used (replay attack prevented)"

\* Rejected with isReplay = true: the 409 response, which
\* validatePaymentMiddleware also flags is_replay_attack.
IsReplay(r) ==
    /\ Rejected(r)
    /\ res[r].http = 409
    /\ gate = "validatePaymentMiddleware" => res[r].is_replay_attack

\* Rejected{reason = AlreadyUsed, isReplay = true}
RejectedAsReplay(r) == IsReplay(r) /\ res[r].error = AlreadyUsed

\* Request r awaited the call op, which ended with outcome.
Did(r, op, outcome) == \E i \in DOMAIN trace[r] : trace[r][i] = <<op, outcome>>

\* An awaited storage or chain call of the request failed.
Faulted(r) == \E i \in DOMAIN trace[r] : trace[r][i][2] = "error"

\* The gate passed request r to the verification (verify was called for it): the
\* request was neither skipped in development mode nor answered 402.
Delegated(r) ==
    /\ pc[r] # "idle"
    /\ Production
    /\ IF gate = "validatePaymentMiddleware"
       THEN ~MissingHeaders(req[r].signature, req[r].attributes)
       ELSE ~MissingProof(req[r].signature)

\* The requests that presented signature s.
Presented(s) == {r \in Reqs : req[r].signature = s}

Rows(s) == {i \in DOMAIN payment_signatures : payment_signatures[i].signature = s}

\* The accounts that occur in the transactions of the chain.
Addresses == {"SENDER", "RECEIVER", "OTHER"}

\* The lamports the transaction of signature s moved to address a, read off the
\* chain record: 0 when there is no such transaction, it failed, or the address
\* is not among its accounts.
Transfers ==
    [s \in Claimed |-> [a \in Addresses |->
        IF Chain(s) = None THEN 0
        ELSE LET tx == Chain(s)[1]
                 at == {i \in DOMAIN tx.accounts : tx.accounts[i] = a}
             IN  IF tx.err \/ at = {} THEN 0
                 ELSE LET i == CHOOSE j \in at : TRUE
                      IN  tx.postBalances[i] - tx.preBalances[i]]]

Paid(s, address) == Transfers[s][address]

\* The expected amount, in lamports, the gate in use verifies against: the
\* expectedAmount argument of validatePayment, or expectedAmountSol.
Expected == IF gate = "validatePaymentMiddleware" THEN FloorLamports(config.amountSol)
            ELSE config.amountSol

\* A valid signature: its transaction succeeded and paid the configured
\* recipient a positive amount of at least the expected amount.
Valid(s) == Paid(s, receiverAddress) > 0 /\ Paid(s, receiverAddress) >= Expected

(***************************************************************************)
(* C1 Single acceptance: in production mode, when every request that       *)
(* presented a valid signature s has returned and none of them met an      *)
(* infrastructure error, exactly one of them was accepted and every other  *)
(* one was rejected as a replay.                                           *)
(***************************************************************************)
C1_SingleAcceptance ==
    \A s \in Sigs :
        LET calls == Presented(s)
        IN  ( /\ Production
              /\ Valid(s)
              /\ calls # {}
              /\ \A r \in calls : Done(r) /\ ~Faulted(r) )
            => /\ Cardinality({r \in calls : Accepted(r)}) = 1
               /\ \A r \in calls : ~Accepted(r) => IsReplay(r)

(***************************************************************************)
(* C2 Sequential replay rejection: in production mode a request that       *)
(* arrives when the ledger already holds its signature is never accepted,  *)
(* and unless one of its own storage calls failed it is rejected as a      *)
(* replay (AlreadyUsed, 409).                                              *)
(***************************************************************************)
C2_SequentialReplayRejected ==
    \A r \in Reqs :
        (Production /\ Done(r) /\ trace[r][1] = <<"request", "used">>)
        => /\ ~Accepted(r)
           /\ ~Faulted(r) => RejectedAsReplay(r)

(***************************************************************************)
(* C3 Fail closed: in production mode a request whose ledger lookup, chain *)
(* read or first-use insert failed with an infrastructure error is         *)
(* rejected; it is never accepted.                                         *)
(***************************************************************************)
C3_FailClosed ==
    \A r \in Reqs :
        ( /\ Production
          /\ Done(r)
          /\ \E op \in {"SELECT", "getTransaction", "INSERT"} : Did(r, op, "error") )
        => Rejected(r)

(***************************************************************************)
(* C4 Race loser is a replay: a request whose first-use insert failed with *)
(* a duplicate key is rejected as a replay (AlreadyUsed, 409), like a      *)
(* lookup hit; it is neither accepted nor reported as a generic error.     *)
(***************************************************************************)
C4_RaceLoserIsReplay ==
    \A r \in Reqs :
        (Done(r) /\ Did(r, "INSERT", "duplicate")) => RejectedAsReplay(r)

(***************************************************************************)
(* C5 Ledger uniqueness: in every reachable state the ledger holds at most *)
(* one row per signature.                                                  *)
(***************************************************************************)
C5_LedgerUniqueness ==
    \A i, j \in DOMAIN payment_signatures :
        payment_signatures[i].signature = payment_signatures[j].signature => i = j

\* Two requests raced on the same unseen signature: both missed the lookup,
\* both attempted the insert, one insert was refused, one row exists.
C5_Witness ==
    \E r1, r2 \in Reqs :
        /\ r1 # r2
        /\ req[r1].signature = req[r2].signature
        /\ Did(r1, "SELECT", "miss") /\ Did(r2, "SELECT", "miss")
        /\ Did(r1, "INSERT", "ok")
        /\ Did(r2, "INSERT", "duplicate")
        /\ Cardinality(Rows(req[r1].signature)) = 1

(***************************************************************************)
(* C6 Monotonic usage counter: in production mode, when the k requests     *)
(* that presented a valid signature have all returned, none met an         *)
(* infrastructure error, one was accepted and the k-1 others were rejected *)
(* as replays, the stored usage_count of its row is k.                     *)
(***************************************************************************)
C6_UsageCountIsK ==
    \A s \in Sigs :
        LET calls == Presented(s)
        IN  ( /\ Production
              /\ Valid(s)
              /\ calls # {}
              /\ \A r \in calls : Done(r) /\ ~Faulted(r)
              /\ Cardinality({r \in calls : Accepted(r)}) = 1
              /\ \A r \in calls : ~Accepted(r) => IsReplay(r) )
            => \E i \in Rows(s) : payment_signatures[i].usage_count = Cardinality(calls)

C8_AmountBoundary ==
    \A r \in Reqs :
        LET a == Paid(req[r].signature, receiverAddress)
        IN  ( /\ Production
              /\ Done(r)
              /\ a > 0
              /\ ~Faulted(r)
              /\ Did(r, "SELECT", "miss")
              /\ ~Did(r, "INSERT", "duplicate") )
            => /\ Accepted(r) <=> a >= Expected
               /\ a < Expected => /\ Rejected(r)
                                  /\ res[r].http = 400
                                  /\ res[r].error = "Insufficient payment amount"

\* One request paid exactly the expected amount and was accepted, another
\* paid one lamport less and was rejected.
C8_Witness ==
    \E r1, r2 \in Reqs :
        /\ Production
        /\ Done(r1) /\ Done(r2) /\ ~Faulted(r1) /\ ~Faulted(r2)
        /\ Paid(req[r1].signature, receiverAddress) = Expected
        /\ Accepted(r1)
        /\ Paid(req[r2].signature, receiverAddress) = Expected - 1
        /\ res[r2].error = "Insufficient payment amount"

\* The signatures whose transaction succeeded without the configured recipient
\* among its accounts.
NotToReceiver ==
    {s \in Sigs : /\ Chain(s) # None
                  /\ ~Chain(s)[1].err
                  /\ \A i \in DOMAIN Chain(s)[1].accounts :
                        Chain(s)[1].accounts[i] # receiverAddress}

\* The transaction of s succeeded and moved at least the expected amount to
\* an address other than the configured recipient, which is not among its
\* accounts.
WrongRecipient(s) ==
    /\ s \in NotToReceiver
    /\ \E a \in Addresses : Paid(s, a) >= Expected

RecipientErrors ==
    {"Payment not sent to expected receiver address", "Payment not sent to correct address"}

(***************************************************************************)
(* C9 Recipient boundary: in production mode a signature whose successful  *)
(* transaction paid at least the expected amount to another address is     *)
(* never accepted and gets no ledger row; a request presenting it that was *)
(* passed to the verification and met no infrastructure error is rejected  *)
(* for the recipient, not as a replay.                                     *)
(***************************************************************************)
C9_RecipientBoundary ==
    Production
    => /\ \A i \in DOMAIN payment_signatures :
             ~WrongRecipient(payment_signatures[i].signature)
       /\ \A r \in Reqs :
             (pc[r] # "idle" /\ WrongRecipient(req[r].signature))
             => /\ ~Accepted(r)
                /\ (Done(r) /\ ~Faulted(r) /\ Delegated(r))
                   => /\ Rejected(r)
                      /\ res[r].http = 400
                      /\ res[r].error \in RecipientErrors
                      /\ ~IsReplay(r)

C9_Witness ==
    \E r \in Reqs :
        /\ Production
        /\ Done(r) /\ ~Faulted(r)
        /\ WrongRecipient(req[r].signature)
        /\ res[r].error \in RecipientErrors

(***************************************************************************)
(* C10 Replay path leaves the chain untouched: a request whose ledger      *)
(* lookup hit awaits nothing but the usage_count UPDATE afterwards: no     *)
(* chain read, no timer, no insert, and it extracts no transfer.           *)
(***************************************************************************)
C10_ReplayPathFrame ==
    \A r \in Reqs :
        Did(r, "SELECT", "hit")
        => /\ trace[r][2] = <<"SELECT", "hit">>
           /\ Len(trace[r]) <= 3
           /\ Len(trace[r]) = 3 => trace[r][3][1] = "UPDATE"
           /\ local[r].tx = None

C10_Witness ==
    \E r \in Reqs :
        /\ Done(r)
        /\ trace[r] = << <<"request", "used">>, <<"SELECT", "hit">>, <<"UPDATE", "ok">> >>
        /\ RejectedAsReplay(r)

(***************************************************************************)
(* C11 Replay is distinguishable: a denial carries the replay status (HTTP *)
(* 409, is_replay_attack) if and only if its reason is AlreadyUsed; every  *)
(* denial for an invalid payment or an infrastructure failure has a        *)
(* non-409 status and no replay flag.                                      *)
(***************************************************************************)
C11_ReplayDistinguishable ==
    \A r \in Reqs :
        (Done(r) /\ Rejected(r))
        => ((res[r].http = 409 \/ res[r].is_replay_attack) <=> res[r].error = AlreadyUsed)

(***************************************************************************)
(* C12 Replay rejection reports the prior record: in production mode a     *)
(* request rejected as a replay whose storage calls all succeeded carries  *)
(* the first_used_at of the row and a usage count of at least 1 that is    *)
(* the stored count before its own increment, hence below the stored count *)
(* afterwards.                                                             *)
(***************************************************************************)
C12_ReplayReportsPriorRecord ==
    \A r \in Reqs :
        (Production /\ Done(r) /\ RejectedAsReplay(r) /\ ~Faulted(r))
        => \E i \in DOMAIN payment_signatures :
              /\ payment_signatures[i].signature = req[r].signature
              /\ res[r].first_used_at = payment_signatures[i].first_used_at
              /\ res[r].usage_count >= 1
              /\ res[r].usage_count < payment_signatures[i].usage_count

(***************************************************************************)
(* C13 Best-effort counter: a request whose ledger lookup hit and whose    *)
(* usage_count UPDATE failed is still rejected as a replay (AlreadyUsed,   *)
(* 409) with the prior record; the failure of the counter does not change  *)
(* the reason of the rejection.                                            *)
(***************************************************************************)
C13_BestEffortCounter ==
    \A r \in Reqs :
        (Done(r) /\ Did(r, "SELECT", "hit") /\ Did(r, "UPDATE", "error"))
        => RejectedAsReplay(r)

(***************************************************************************)
(* C14 Development-mode bypass: in development mode every request that has *)
(* arrived, whatever its signature (empty or absent included), has been    *)
(* accepted at once, having awaited no storage or chain call, and the      *)
(* ledger holds no row.                                                    *)
(***************************************************************************)
C14_DevelopmentBypass ==
    ~Production
    => /\ payment_signatures = <<>>
       /\ \A r \in Reqs :
             pc[r] # "idle" => Done(r) /\ Accepted(r) /\ Len(trace[r]) = 1

\* In development mode a request without a signature and a request with a
\* signature unknown to the chain were both accepted.
C14_Witness ==
    \E r1, r2 \in Reqs :
        /\ ~Production
        /\ Done(r1) /\ Done(r2)
        /\ req[r1].signature = NoSignature /\ Accepted(r1)
        /\ req[r2].signature = "SIG_NONE" /\ Accepted(r2)

(***************************************************************************)
(* C15 Missing proof: in production mode a request that carries no         *)
(* signature is answered 402 with the expected amount, the network and the *)
(* recipient address; it is not passed downstream and awaits no storage or *)
(* chain call.                                                             *)
(***************************************************************************)
C15_MissingProof ==
    \A r \in Reqs :
        (Production /\ pc[r] # "idle" /\ req[r].signature = NoSignature)
        => /\ Done(r)
           /\ Rejected(r)
           /\ res[r].http = 402
           /\ res[r].payment = Some([amount_sol |-> config.amountSol,
                                     network |-> "solana",
                                     receiver_address |-> receiverAddress])
           /\ Len(trace[r]) = 1

C15_Witness ==
    \E r \in Reqs :
        /\ Production
        /\ Done(r)
        /\ req[r].signature = NoSignature
        /\ res[r].http = 402
        /\ payment_signatures = <<>>

(***************************************************************************)
(* C16 Signature is the only required proof attribute: in production mode  *)
(* a request that carries a non-empty signature is never answered 402,     *)
(* whether or not it carries the claimed network and amount.               *)
(***************************************************************************)
C16_SignatureOnlyRequired ==
    \A r \in Reqs :
        (Production /\ Done(r) /\ req[r].signature # NoSignature) => res[r].http # 402

\* The route handler of request r, hence the query executor, was invoked.
Invoked(r) == res[r].state \in {"next", "handler"}

(***************************************************************************)
(* C17 Downstream only after Accepted: in production mode the handler of a *)
(* route documented as requiring payment is invoked for a request only     *)
(* after the gate accepted that request.                                   *)
(***************************************************************************)
C17_DownstreamOnlyAfterAccepted ==
    \A r \in Reqs : (Production /\ Invoked(r)) => Accepted(r)

(***************************************************************************)
(* C18 Startup readiness: the server listens only after the database       *)
(* health check succeeded.                                                 *)
(***************************************************************************)
C18_StartupReadiness ==
    server.state = "listening" => server.dbHealthy

(***************************************************************************)
(* C19 No hanging caller: every request that entered the gate eventually   *)
(* gets its result, also when the store or the chain endpoint does not     *)
(* answer.                                                                 *)
(***************************************************************************)
C19_NoHangingCaller ==
    \A r \in Reqs : (pc[r] # "idle") ~> Done(r)

\* The row request r inserted, as it was written.
Inserted(r) ==
    IF gate = "validatePaymentMiddleware" THEN TrackerRow(r) ELSE SimpleRow(r)

C21_CounterBounds ==
    /\ [](\A i \in DOMAIN payment_signatures : payment_signatures[i].usage_count >= 1)
    /\ [][ /\ Len(payment_signatures') >= Len(payment_signatures)
           /\ \A i \in DOMAIN payment_signatures' :
                 IF i \in DOMAIN payment_signatures
                 THEN /\ payment_signatures'[i].signature = payment_signatures[i].signature
                      /\ payment_signatures'[i].usage_count
                            >= payment_signatures[i].usage_count
                 ELSE payment_signatures'[i].usage_count = 1 ]_vars

\* A row was created by one request and counted up by a later one.
C21_Witness ==
    \E i \in DOMAIN payment_signatures, r1, r2 \in Reqs :
        /\ r1 < r2
        /\ req[r1].signature = payment_signatures[i].signature
        /\ req[r2].signature = payment_signatures[i].signature
        /\ Did(r1, "INSERT", "ok")
        /\ Did(r2, "SELECT", "hit")
        /\ Did(r2, "UPDATE", "ok")
        /\ payment_signatures[i].usage_count > 1

(***************************************************************************)
(* C22 Accepted implies recorded: in production mode, when a request has   *)
(* been accepted (passed to the downstream handler), the ledger holds a    *)
(* row for its signature with usage_count >= 1.                            *)
(***************************************************************************)
C22_AcceptedImpliesRecorded ==
    \A r \in Reqs :
        (Production /\ Done(r) /\ Accepted(r))
        => \E i \in DOMAIN payment_signatures :
              /\ payment_signatures[i].signature = req[r].signature
              /\ payment_signatures[i].usage_count >= 1

\* The chain queries and timer waits request r awaited, in order.
Lookups(r) ==
    SelectSeq(trace[r], LAMBDA e : e[1] \in {"getTransaction", "setTimeout"})

\* The whole lookup sequence of one fetch: two attempts of a `confirmed` query
\* followed by a `finalized` query, with one wait between the attempts.
LookupPattern ==
    << <<"getTransaction", "confirmed">>, <<"getTransaction", "finalized">>,
       <<"setTimeout", "1000">>,
       <<"getTransaction", "confirmed">>, <<"getTransaction", "finalized">> >>

\* The responses that report the transaction as not found.
NotFoundErrors ==
    {"Transaction not found on blockchain", "Transaction not found or not confirmed"}

(***************************************************************************)
(* C23 Chain reader lookup sequence: the chain queries and waits of a      *)
(* request are a prefix of confirmed, finalized, wait, confirmed,          *)
(* finalized (a query that failed counts for its level); a query follows   *)
(* another only when the signature is unknown to the chain; and a request  *)
(* is answered "not found" only after the whole sequence came back empty.  *)
(***************************************************************************)
C23_LookupSequence ==
    \A r \in Reqs :
        LET q == Lookups(r)
        IN  /\ Len(q) <= Len(LookupPattern)
            /\ \A i \in DOMAIN q :
                  \/ q[i] = LookupPattern[i]
                  \/ q[i] = <<LookupPattern[i][1], "error">> /\ i = Len(q)
            /\ (Len(q) > 1) => Chain(req[r].signature) = None
            /\ (Done(r) /\ res[r].error \in NotFoundErrors) => q = LookupPattern

\* The signatures whose transaction was found and executed without error.
Successful == {s \in Sigs : Chain(s) # None /\ ~Chain(s)[1].err}

\* The reason class of a response of the gate.
ReasonClass(response) ==
    CASE response.state = "next" -> "Accepted"
      [] response.error \in RecipientErrors \cup
            {"No positive balance change detected for receiver"}
            -> "RecipientOrAmountInvalid"
      [] response.error = "Wrong asset type" -> "WrongAsset"
      [] response.error = "Insufficient payment amount" -> "InsufficientAmount"
      [] OTHER -> "Other"

\* The asset the gates expect and the asset class of a native transfer.
expectedAsset == "native"

\* The outcome the checks give when applied in the order recipient present,
\* positive delta, asset match, amount.
FirstFailing(s) ==
    IF s \in NotToReceiver \/ Paid(s, receiverAddress) <= 0
    THEN "RecipientOrAmountInvalid"
    ELSE IF "native" # expectedAsset THEN "WrongAsset"
    ELSE IF Paid(s, receiverAddress) < Expected THEN "InsufficientAmount"
    ELSE "Accepted"

(***************************************************************************)
(* C24 Rejection reason precedence: in production mode a request that      *)
(* presents an unseen signature whose transaction was found and succeeded, *)
(* and that met no infrastructure error and lost no insert race, gets the  *)
(* outcome of the first failing check in the order recipient present,      *)
(* positive delta, asset match, amount.                                    *)
(***************************************************************************)
C24_ReasonPrecedence ==
    \A r \in Reqs :
        ( /\ Production
          /\ Done(r)
          /\ req[r].signature \in Successful
          /\ ~Faulted(r)
          /\ Did(r, "SELECT", "miss")
          /\ ~Did(r, "INSERT", "duplicate") )
        => ReasonClass(res[r]) = FirstFailing(req[r].signature)

\* The signatures whose transaction was found and whose execution failed.
FailedOnChain == {s \in Sigs : Chain(s) # None /\ Chain(s)[1].err}

(***************************************************************************)
(* C25 Failed transaction: in production mode a signature whose            *)
(* transaction is found on chain with an execution error never gets a      *)
(* ledger row; a request presenting it is never accepted, extracts no      *)
(* transfer and attempts no insert, and when it was passed to the          *)
(* verification and met no infrastructure error it is rejected with status *)
(* 400 and the "transaction failed" message, neither as a replay nor as    *)
(* "not found".                                                            *)
(***************************************************************************)
C25_FailedTransaction ==
    Production
    => /\ \A i \in DOMAIN payment_signatures :
             payment_signatures[i].signature \notin FailedOnChain
       /\ \A r \in Reqs :
             req[r].signature \in FailedOnChain
             => /\ ~Accepted(r)
                /\ local[r].tx = None
                /\ \A i \in DOMAIN trace[r] : trace[r][i][1] # "INSERT"
                /\ (Done(r) /\ ~Faulted(r) /\ Delegated(r))
                   => /\ Rejected(r)
                      /\ res[r].http = 400
                      /\ ~res[r].is_replay_attack
                      /\ res[r].error = "Transaction failed on blockchain"
                      /\ res[r].error \notin NotFoundErrors

\* A request presented the signature of a failed transaction and was told so.
C25_Witness ==
    \E r \in Reqs :
        /\ Production
        /\ Done(r) /\ ~Faulted(r)
        /\ req[r].signature \in FailedOnChain
        /\ Did(r, "getTransaction", "confirmed")
        /\ res[r].http = 400
        /\ res[r].error = "Transaction failed on blockchain"

\* The signatures whose successful transaction lists the configured recipient
\* among its accounts with a balance change of zero or less.
NonPositive ==
    {s \in Successful : s \notin NotToReceiver /\ Paid(s, receiverAddress) <= 0}

(***************************************************************************)
(* C26 Non-positive transfer: in production mode, whatever the expected    *)
(* amount (0 included), a signature whose successful transaction lists the *)
(* recipient with a balance change of zero or less is never accepted and   *)
(* gets no ledger row; a request presenting it that was passed to the      *)
(* verification and met no infrastructure error is rejected for the        *)
(* recipient or the transfer (RecipientOrAmountInvalid).                   *)
(***************************************************************************)
C26_NonPositiveTransfer ==
    Production
    => /\ \A i \in DOMAIN payment_signatures :
             payment_signatures[i].signature \notin NonPositive
       /\ \A r \in Reqs :
             req[r].signature \in NonPositive
             => /\ ~Accepted(r)
                /\ (Done(r) /\ ~Faulted(r) /\ Delegated(r))
                   => /\ Rejected(r)
                      /\ ReasonClass(res[r]) = "RecipientOrAmountInvalid"

\* The requests other than r that presented the signature of r.
Rivals(r) == {q \in Reqs : q # r /\ req[q].signature = req[r].signature}

C28_GlobalReplayProtection ==
    \A r1, r2 \in Reqs :
        ( /\ Production
          /\ Done(r1) /\ Done(r2)
          /\ req[r1].signature = req[r2].signature
          /\ req[r1].endpoint # req[r2].endpoint
          /\ Did(r1, "INSERT", "ok")
          /\ trace[r2][1] = <<"request", "used">> )
        => /\ ~Accepted(r2)
           /\ (Delegated(r2) /\ ~Faulted(r2)) => RejectedAsReplay(r2)
           /\ \A i \in Rows(req[r1].signature) :
                 payment_signatures[i].api_endpoint = req[r1].endpoint

(***************************************************************************)
(* C29 Provenance is the verified payment: in production mode the record   *)
(* attached to an accepted request is {signature, network, amount,         *)
(* verified = true} with the signature of the request, the network that    *)
(* was verified and the amount its transaction moved to the recipient on   *)
(* chain.                                                                  *)
(***************************************************************************)
C29_ProvenanceIsVerified ==
    \A r \in Reqs :
        (Production /\ Done(r) /\ Accepted(r))
        => /\ res[r].attached # None
           /\ res[r].attached[1].signature = req[r].signature
           /\ res[r].attached[1].verified
           /\ res[r].attached[1].network = "solana"
           /\ res[r].attached[1].amount = Paid(req[r].signature, receiverAddress)

\* The positions of the status requests in the history of the poll.
StatusRequests == {i \in DOMAIN poll.log : poll.log[i][1] = "status"}

(***************************************************************************)
(* C30 pollForResults stops on failure: once a status poll has observed    *)
(* QUERY_STATE_FAILED the function has raised its error, with no further   *)
(* status request and no wait after it; and it issues at most maxAttempts  *)
(* status requests.                                                        *)
(***************************************************************************)
C30_PollStopsOnFailure ==
    /\ Cardinality(StatusRequests) <= MaxPolls
    /\ \A i \in StatusRequests :
          poll.log[i][2] = "QUERY_STATE_FAILED"
          => /\ i = Len(poll.log)
             /\ poll.pc = "thrown"
====
